---- MODULE Spec2Model ----
(***************************************************************************)
(* A model of scrape_levels.py: the catalogue scan (fetch_levels), the    *)
(* three selection modes of main, the per-level loop of download_puzzle    *)
(* with its two files (puzzles.pkl and index.ssv), and the pure functions  *)
(* html_to_json and convert_puzzle.                                        *)
(*                                                                         *)
(* Python lists are sequences; a 0-based index k is kept at k+1.  A dict   *)
(* is a function whose DOMAIN is its key set.  Border classes, the saved   *)
(* html/png/json artefacts and the log are left out: nothing reads them.   *)
(***************************************************************************)
EXTENDS Integers, Sequences, FiniteSets, TLC

\* ---------------------------------------------------------------- bounds
\* Level identifiers of the remote catalogue are 1..MaxLevel.
MaxLevel == 2
\* Anchors found on the homepage in one scan.
MaxAnchors == 2
\* Comma-separated parts typed at the "specific levels" prompt.
MaxParts == 2
\* Cells of a json_data list handed to convert_puzzle on its own.
MaxCells == 2
\* Largest data-row / data-col value of such a cell (the least is -2).
MaxCoord == 1

Colors == {"red", "blue"}

\* ------------------------------------------------------- small utilities
Range(s) == {s[k] : k \in 1..Len(s)}

SeqsUpTo(S, n) == UNION {[1..k -> S] : k \in 0..n}

\* Python's sorted(set(...)) of integers.
RECURSIVE SortedSeq(_)
SortedSeq(S) ==
    IF S = {} THEN <<>>
    ELSE LET m == CHOOSE x \in S : \A y \in S : x <= y
         IN <<m>> \o SortedSeq(S \ {m})

\* Python's max() over a non-empty set of integers.
PyMax(S) == CHOOSE x \in S : \A y \in S : y <= x

\* The empty dict.
EmptyDict == <<>>

\* d[k] = v on a dict.
DictPut(d, k, v) == [x \in (DOMAIN d) \cup {k} |-> IF x = k THEN v ELSE d[x]]

\* All orders random.sample(range(1, n + 1), n) can return.
Perms(n) == {p \in [1..n -> 1..n] : \A a, b \in 1..n : p[a] = p[b] => a = b}

\* ------------------------------------------------------------ html_to_json
\* An attribute of a div.square: missing, an integer literal, or other text.
AttrAbsent == [kind |-> "absent", val |-> 0]
AttrBad == [kind |-> "text", val |-> 0]
AttrInt(n) == [kind |-> "int", val |-> n]

\* int(div.get('data-row', -1)) for an attribute that int() accepts.
IntAttr(a) == IF a.kind = "absent" THEN 0 - 1 ELSE a.val

\* int() raises ValueError on an attribute that is no integer literal.
html_raises(html) ==
    \E k \in 1..Len(html) : html[k].row.kind = "text" \/ html[k].col.kind = "text"

\* The background-color of the style, '' when the style names none.
StyleColor(style) == IF style = "none" THEN "" ELSE style

html_to_json(html) ==
    [k \in 1..Len(html) |->
        [row |-> IntAttr(html[k].row),
         col |-> IntAttr(html[k].col),
         color |-> StyleColor(html[k].style)]]

\* ---------------------------------------------------------- convert_puzzle
\* The running maximum of the scan, which starts from 0.
RECURSIVE ScanMax(_, _)
ScanMax(vals, acc) ==
    IF vals = <<>> THEN acc
    ELSE ScanMax(Tail(vals), IF Head(vals) > acc THEN Head(vals) ELSE acc)

max_row(json_data) == ScanMax([k \in 1..Len(json_data) |-> json_data[k].row], 0)
max_col(json_data) == ScanMax([k \in 1..Len(json_data) |-> json_data[k].col], 0)

\* The colours in first-seen order.
RECURSIVE UniqueFrom(_, _)
UniqueFrom(json_data, seen) ==
    IF json_data = <<>> THEN seen
    ELSE UniqueFrom(Tail(json_data),
                    IF Head(json_data).color \in Range(seen) THEN seen
                    ELSE Append(seen, Head(json_data).color))

unique_colors(json_data) == UniqueFrom(json_data, <<>>)

\* dict(zip(unique_colors, random_numbers))
color_map(json_data, random_numbers) ==
    LET u == unique_colors(json_data)
    IN [c \in Range(u) |-> random_numbers[CHOOSE k \in 1..Len(u) : u[k] = c]]

\* Python's list index: k for 0 <= k < n, n + k for -n <= k < 0; anything else
\* raises IndexError (given here as n, which is no index).
PyIndex(k, n) ==
    IF 0 <= k /\ k < n THEN k
    ELSE IF 0 - n <= k /\ k < 0 THEN n + k
    ELSE n

rows_of(json_data) == max_row(json_data) + 1
cols_of(json_data) == max_col(json_data) + 1

\* matrix[cell['row']][cell['col']] raises IndexError for some cell.
convert_raises(json_data) ==
    \E k \in 1..Len(json_data) :
        \/ PyIndex(json_data[k].row, rows_of(json_data)) = rows_of(json_data)
        \/ PyIndex(json_data[k].col, cols_of(json_data)) = cols_of(json_data)

\* The assignments of the second loop, in order, on the matrix so far.
RECURSIVE FillMatrix(_, _, _, _, _)
FillMatrix(matrix, cells, cmap, rows, cols) ==
    IF cells = <<>> THEN matrix
    ELSE LET cell == Head(cells)
             r == PyIndex(cell.row, rows) + 1
             c == PyIndex(cell.col, cols) + 1
         IN FillMatrix([matrix EXCEPT ![r][c] = <<cmap[cell.color], 0>>],
                       Tail(cells), cmap, rows, cols)

\* convert_puzzle on a list it does not raise on; random_numbers is the sample drawn.
convert_puzzle(json_data, random_numbers) ==
    IF json_data = <<>> THEN [matrix |-> <<>>, color_map |-> EmptyDict]
    ELSE LET cmap == color_map(json_data, random_numbers)
             rows == rows_of(json_data)
             cols == cols_of(json_data)
             blank == [r \in 1..rows |-> [c \in 1..cols |-> <<0, 0>>]]
         IN [matrix |-> FillMatrix(blank, json_data, cmap, rows, cols),
             color_map |-> cmap]

\* The samples random.sample can draw for this list.
Samples(json_data) == Perms(Len(unique_colors(json_data)))

\* ------------------------------------------------------------- the files
\* puzzles.pkl: absent, or a pickled dict level -> {matrix, color_map}.
\* index.ssv: absent, or the header and the rows written after it.
NoFile == [exists |-> FALSE, data |-> EmptyDict]
NoIndex == [exists |-> FALSE, rows |-> <<>>]

\* load_pickle: the pickled dict, or {} when the file is absent.
load_pickle_fresh(file) == EmptyDict
load_pickle(file) == IF file.exists THEN file.data ELSE EmptyDict

\* "if pickle_data:" guarding save_pickle.
save_guard_always(pickle_data) == TRUE
save_guard(pickle_data) == DOMAIN pickle_data # {}

\* The pickle file after the block "if pickle_data: save_pickle(...)".
pickle_after_skipped(file, pickle_data) == file
pickle_after(file, pickle_data) ==
    IF save_guard(pickle_data) THEN [exists |-> TRUE, data |-> pickle_data] ELSE file

\* The index file after the block "if index_rows: ... writer.writerows(index_rows)".
index_after_short(file, index_rows) ==
    IF index_rows # <<>> THEN [exists |-> TRUE, rows |-> Tail(index_rows)] ELSE file
index_after(file, index_rows) ==
    IF index_rows # <<>> THEN [exists |-> TRUE, rows |-> index_rows] ELSE file

\* The levels of the rows csv.DictReader yields from index.ssv.
existing_levels(file) == [k \in 1..Len(file.rows) |-> file.rows[k].level]

\* ------------------------------------------------------------ fetch_levels
\* An anchor is the level number of its href, or 0 when the href has no digits.
Anchors == 0..MaxLevel

fetch_levels(anchors) ==
    SortedSeq({anchors[k] : k \in {j \in 1..Len(anchors) : anchors[j] # 0}})

\* ------------------------------------------------------ read_missing_levels
read_missing_levels_by_count(file, available) ==
    IF ~file.exists THEN available
    ELSE SubSeq(available, Len(file.rows) + 1, Len(available))
read_missing_levels(file, available) ==
    IF ~file.exists THEN available
    ELSE SelectSeq(available, LAMBDA lvl : lvl \notin Range(existing_levels(file)))

\* ------------------------------------------------------ get_specific_levels
\* A comma-separated part is an integer literal or other text.
PartInt(n) == [int |-> TRUE, val |-> n]
PartText == [int |-> FALSE, val |-> 0]
IntParts == {PartInt(n) : n \in 1..(MaxLevel + 1)}

\* The lines typed: every line of integers, and one line that is no integer.
TypedLines == SeqsUpTo(IntParts, MaxParts) \cup {<<PartText>>}

\* int(p) raises ValueError for some part.
parts_raise(parts) == \E k \in 1..Len(parts) : ~parts[k].int

nums_of(parts) == [k \in 1..Len(parts) |-> parts[k].val]

\* invalid = [n for n in nums if n not in available]
invalid_by_range(nums, available) ==
    SelectSeq(nums, LAMBDA n : n > PyMax(Range(available)))
invalid_of(nums, available) ==
    SelectSeq(nums, LAMBDA n : n \notin Range(available))

\* ------------------------------------------------- the body of the for loop
Div(r, c, s) == [row |-> r, col |-> c, style |-> s]

\* The grids a level page can show.
RunPages ==
    { <<>>,
      <<Div(AttrInt(0), AttrInt(0), "red")>>,
      <<Div(AttrAbsent, AttrInt(0), "red")>>,
      <<Div(AttrInt(0 - 2), AttrInt(0), "red")>>,
      <<Div(AttrBad, AttrInt(0), "red")>> }

\* What visiting a level page can give: page.goto (or saving the html or the
\* screenshot) raises, neither selector matches, or the grid's html.
Fetches ==
    {[kind |-> k, html |-> <<>>] : k \in {"goto_raises", "no_container"}}
    \cup {[kind |-> "grid", html |-> h] : h \in RunPages}

\* size_str, as the pair (rows, cols) of "R by C", or <<>> for ''.
size_str(json_data) ==
    IF json_data # <<>>
    THEN <<PyMax({json_data[k].row : k \in 1..Len(json_data)}) + 1,
           PyMax({json_data[k].col : k \in 1..Len(json_data)}) + 1>>
    ELSE <<>>

index_row(lvl, json_data) ==
    [level |-> lvl,
     image_path |-> <<"levels/pictures/puzzle", lvl, ".png">>,
     json_path |-> <<"levels/json/puzzle", lvl, ".json">>,
     grid_size |-> size_str(json_data)]

\* failures.append((lvl, reason)), in the "not grid_el" branch and in the handler.
record_failure_lost(st, lvl, reason) == st
record_failure(st, lvl, reason) ==
    [st EXCEPT !.failures = Append(@, <<lvl, reason>>)]

\* Lines 204-217 once convert_puzzle has returned.
record_success(st, lvl, json_data, puzzle_data) ==
    [st EXCEPT !.pickle_data = DictPut(@, lvl, puzzle_data),
               !.index_rows = Append(@, index_row(lvl, json_data)),
               !.successes = Append(@, lvl)]

\* One pass of the body for level lvl.
iteration(st, lvl, fetch, sample) ==
    IF fetch.kind = "goto_raises" THEN record_failure(st, lvl, "goto")
    ELSE IF fetch.kind = "no_container"
    THEN record_failure(st, lvl, "Puzzle container not found")
    ELSE IF html_raises(fetch.html) THEN record_failure(st, lvl, "ValueError")
    ELSE LET json == html_to_json(fetch.html)
             got == [st EXCEPT !.json_data = json, !.json_level = lvl]
         IN IF convert_raises(json) THEN record_failure(got, lvl, "IndexError")
            ELSE record_success(got, lvl, json, convert_puzzle(json, sample))

\* The samples random.sample can draw while this page is processed.
SamplesFor(fetch) ==
    IF fetch.kind = "grid" /\ ~html_raises(fetch.html)
       /\ ~convert_raises(html_to_json(fetch.html))
    THEN Samples(html_to_json(fetch.html))
    ELSE {<<>>}

\* ------------------------------------------------------------------ state
VARIABLES
    pc,           \* where main is: "main", "choice", "specific", "download",
                  \* "loop", "index", "exit"
    available,    \* main: the list fetch_levels returned
    choice,       \* main: what get_user_choice returned, "" before it has
    nums,         \* get_specific_levels: the integers of the line last parsed
    invalid,      \* get_specific_levels: those of nums that are not available
                  \* (both kept until download_puzzle is entered)
    levels,       \* download_puzzle: its levels argument
    i,            \* download_puzzle: the position of the for loop in levels
    loc,          \* download_puzzle: pickle_data, index_rows, successes, failures,
                  \* json_data, with json_level (the level json_data is of)
    pklFile,      \* levels/puzzles.pkl
    ssvFile,      \* levels/index.ssv
    attempted,    \* the levels page.goto was called for in this run, in order
    pklBefore,    \* the dict in puzzles.pkl when this run began
    pklWrites,    \* the save_pickle calls of this run
    acquired,     \* the levels that were a success in some run so far
    cv_pc,        \* convert_puzzle on its own: "call", "returned", "raised"
    cv_json,      \* its json_data argument
    cv_out        \* what it returned

vars == <<pc, available, choice, nums, invalid, levels, i, loc, pklFile, ssvFile, attempted,
          pklBefore, pklWrites, acquired, cv_pc, cv_json, cv_out>>

cvVars == <<cv_pc, cv_json, cv_out>>
runVars == <<pc, available, choice, nums, invalid, levels, i, loc, pklFile, ssvFile, attempted,
             pklBefore, pklWrites, acquired>>

NoLocals ==
    [pickle_data |-> EmptyDict, index_rows |-> <<>>, successes |-> <<>>,
     failures |-> <<>>, json_data |-> <<>>, json_level |-> 0]

NoResult == [matrix |-> <<>>, color_map |-> EmptyDict]

RunInit ==
    /\ pc = "main"
    /\ available = <<>>
    /\ choice = ""
    /\ nums = <<>>
    /\ invalid = <<>>
    /\ levels = <<>>
    /\ i = 1
    /\ loc = NoLocals
    /\ pklFile = NoFile
    /\ ssvFile = NoIndex
    /\ attempted = <<>>
    /\ pklBefore = EmptyDict
    /\ pklWrites = 0
    /\ acquired = {}

Init ==
    /\ RunInit
    /\ cv_pc = "idle"
    /\ cv_json = <<>>
    /\ cv_out = NoResult

\* ---------------------------------------------------------------- actions
\* main, lines 306-309: scan the homepage; stop when no level is found.
FetchLevels ==
    /\ pc = "main"
    /\ \E anchors \in SeqsUpTo(Anchors, MaxAnchors) :
          /\ available' = fetch_levels(anchors)
          /\ pc' = IF fetch_levels(anchors) = <<>> THEN "exit" ELSE "choice"
    /\ UNCHANGED <<choice, nums, invalid, levels, i, loc, pklFile, ssvFile, attempted,
                   pklBefore, pklWrites, acquired, cvVars>>

\* main, lines 312-313: choice "1".
ChooseAll ==
    /\ pc = "choice"
    /\ choice' = "1"
    /\ levels' = available
    /\ pc' = "download"
    /\ UNCHANGED <<available, nums, invalid, i, loc, pklFile, ssvFile, attempted,
                   pklBefore, pklWrites, acquired, cvVars>>

\* main, lines 314-315: choice "2" opens the prompt of get_specific_levels.
ChooseSpecific ==
    /\ pc = "choice"
    /\ choice' = "2"
    /\ pc' = "specific"
    /\ UNCHANGED <<available, nums, invalid, levels, i, loc, pklFile, ssvFile, attempted,
                   pklBefore, pklWrites, acquired, cvVars>>

\* get_specific_levels, lines 267-278: one line typed at the prompt.
SubmitSelection ==
    /\ pc = "specific"
    /\ \E parts \in TypedLines :
          IF parts_raise(parts)
          THEN UNCHANGED <<pc, nums, invalid, levels>>
          ELSE /\ nums' = nums_of(parts)
               /\ invalid' = invalid_of(nums_of(parts), available)
               /\ IF invalid_of(nums_of(parts), available) # <<>>
                  THEN UNCHANGED <<pc, levels>>
                  ELSE /\ levels' = SortedSeq(Range(nums_of(parts)))
                       /\ pc' = "download"
    /\ UNCHANGED <<available, choice, i, loc, pklFile, ssvFile, attempted,
                   pklBefore, pklWrites, acquired, cvVars>>

\* main, lines 316-320: choice "3".
ChooseMissing ==
    /\ pc = "choice"
    /\ levels' = read_missing_levels(ssvFile, available)
    /\ choice' = "3"
    /\ pc' = IF read_missing_levels(ssvFile, available) = <<>> THEN "exit" ELSE "download"
    /\ UNCHANGED <<available, nums, invalid, i, loc, pklFile, ssvFile, attempted,
                   pklBefore, pklWrites, acquired, cvVars>>

\* download_puzzle, lines 158-173: the empty lists and the pickle loaded once.
DownloadBegin ==
    /\ pc = "download"
    /\ loc' = [NoLocals EXCEPT !.pickle_data = load_pickle(pklFile)]
    /\ pklBefore' = pklFile.data
    /\ i' = 1
    /\ pc' = "loop"
    /\ nums' = <<>>
    /\ invalid' = <<>>
    /\ UNCHANGED <<available, choice, levels, pklFile, ssvFile, attempted,
                   pklWrites, acquired, cvVars>>

\* download_puzzle, lines 175-223: one pass of the for loop.
ProcessLevel ==
    /\ pc = "loop"
    /\ i <= Len(levels)
    /\ \E fetch \in Fetches : \E sample \in SamplesFor(fetch) :
          /\ loc' = iteration(loc, levels[i], fetch, sample)
          /\ acquired' = acquired \cup Range(iteration(loc, levels[i], fetch, sample).successes)
    /\ attempted' = Append(attempted, levels[i])
    /\ i' = i + 1
    /\ UNCHANGED <<pc, available, choice, nums, invalid, levels, pklFile, ssvFile,
                   pklBefore, pklWrites, cvVars>>

\* download_puzzle, lines 225-228: the pickle saved after the loop.
SavePickle ==
    /\ pc = "loop"
    /\ i > Len(levels)
    /\ pklFile' = pickle_after(pklFile, loc.pickle_data)
    /\ pklWrites' = IF save_guard(loc.pickle_data) THEN pklWrites + 1 ELSE pklWrites
    /\ pc' = "index"
    /\ UNCHANGED <<available, choice, nums, invalid, levels, i, loc, ssvFile, attempted,
                   pklBefore, acquired, cvVars>>

\* download_puzzle, lines 230-247, and main's browser.close(): the index
\* written and the report printed.
WriteIndex ==
    /\ pc = "index"
    /\ ssvFile' = index_after(ssvFile, loc.index_rows)
    /\ pc' = "exit"
    /\ UNCHANGED <<available, choice, nums, invalid, levels, i, loc, pklFile, attempted,
                   pklBefore, pklWrites, acquired, cvVars>>

\* The script is started again: a new process, the two files as they were left.
Restart ==
    /\ pc = "exit"
    /\ pc' = "main"
    /\ available' = <<>>
    /\ choice' = ""
    /\ nums' = <<>>
    /\ invalid' = <<>>
    /\ levels' = <<>>
    /\ i' = 1
    /\ loc' = NoLocals
    /\ attempted' = <<>>
    /\ pklBefore' = EmptyDict
    /\ pklWrites' = 0
    /\ UNCHANGED <<pklFile, ssvFile, acquired, cvVars>>

Next ==
    \/ FetchLevels
    \/ ChooseAll
    \/ ChooseSpecific
    \/ SubmitSelection
    \/ ChooseMissing
    \/ DownloadBegin
    \/ ProcessLevel
    \/ SavePickle
    \/ WriteIndex
    \/ Restart

Spec == Init /\ [][Next]_vars

\* ------------------------------------------- convert_puzzle on its own
\* The cells a json_data list can hold: html_to_json gives -1 for a missing
\* attribute and any integer literal an attribute carries.
CellCoords == (0 - 2)..MaxCoord
Cells == [row : CellCoords, col : CellCoords, color : Colors]

ConvertInit ==
    /\ RunInit
    /\ cv_pc = "call"
    /\ cv_json \in SeqsUpTo(Cells, MaxCells)
    /\ cv_out = NoResult

\* convert_puzzle(json_data) returns, having drawn one of the samples.
ConvertReturn ==
    /\ cv_pc = "call"
    /\ ~convert_raises(cv_json)
    /\ \E sample \in Samples(cv_json) : cv_out' = convert_puzzle(cv_json, sample)
    /\ cv_pc' = "returned"
    /\ UNCHANGED <<cv_json, runVars>>

\* convert_puzzle(json_data) raises IndexError at line 102.
ConvertRaise ==
    /\ cv_pc = "call"
    /\ convert_raises(cv_json)
    /\ cv_pc' = "raised"
    /\ UNCHANGED <<cv_json, cv_out, runVars>>

ConvertNext ==
    \/ ConvertReturn
    \/ ConvertRaise

SpecConvert == ConvertInit /\ [][ConvertNext]_vars

\* ============================================================ properties
Count(s, x) == Cardinality({k \in 1..Len(s) : s[k] = x})

FailedLevels == [k \in 1..Len(loc.failures) |-> loc.failures[k][1]]

LedgerLevels == Range(existing_levels(ssvFile))

\* C1: download_puzzle visits the levels of its work set once each and in
\* order, whatever fails; every level visited is in exactly one of successes
\* and failures, once; when the loop is over every level has been visited.
C1_EachLevelAttemptedOnce ==
    /\ pc \in {"loop", "index", "exit"} => attempted = SubSeq(levels, 1, i - 1)
    /\ pc \in {"index", "exit"} => attempted = levels
    /\ \A l \in Range(attempted) :
          Count(loc.successes, l) + Count(FailedLevels, l) = 1
    /\ Range(loc.successes) \cup Range(FailedLevels) = Range(attempted)

\* A run is over in which the first level failed and the second succeeded.
C1_Witness ==
    /\ pc = "exit"
    /\ Len(levels) >= 2
    /\ FailedLevels # <<>> /\ FailedLevels[1] = levels[1]
    /\ loc.successes # <<>> /\ loc.successes[1] = levels[2]

\* C2: when a run with a success is over, the levels of the rewritten index
\* are exactly the successes, every success is a key of the saved pickle with
\* the record converted in this run, and a failed level has no index row and
\* the pickle entry (or none) it had before the run.
C2_StoresReflectSuccesses ==
    (pc = "exit" /\ loc.successes # <<>>) =>
        /\ ssvFile.exists
        /\ pklFile.exists
        /\ LedgerLevels = Range(loc.successes)
        /\ Len(ssvFile.rows) = Len(loc.successes)
        /\ \A l \in Range(loc.successes) :
              l \in DOMAIN pklFile.data /\ pklFile.data[l] = loc.pickle_data[l]
        /\ \A l \in Range(FailedLevels) :
              /\ l \notin LedgerLevels
              /\ IF l \in DOMAIN pklBefore
                 THEN l \in DOMAIN pklFile.data /\ pklFile.data[l] = pklBefore[l]
                 ELSE l \notin DOMAIN pklFile.data

\* A run is over with a success and a failure.
C2_Witness ==
    /\ pc = "exit"
    /\ loc.successes # <<>>
    /\ loc.failures # <<>>

\* C3: the saved pickle keeps what it held: after the save of a run every
\* level that was in the file before the run is still a key, with its prior
\* record unless the run re-acquired it and then with the new record; the
\* successes of the run are keys; and outside the loop every level ever
\* acquired is a key of the file.
C3_StoreKeepsEntries ==
    /\ pc \in {"index", "exit"} =>
          /\ \A l \in DOMAIN pklBefore :
                /\ l \in DOMAIN pklFile.data
                /\ pklFile.data[l] = IF l \in Range(loc.successes)
                                     THEN loc.pickle_data[l] ELSE pklBefore[l]
          /\ \A l \in Range(loc.successes) :
                l \in DOMAIN pklFile.data /\ pklFile.data[l] = loc.pickle_data[l]
    /\ pc # "loop" => acquired \subseteq DOMAIN pklFile.data

\* The pickle has just been saved by a run that re-acquired one stored level
\* with a different record and left another stored level alone.
C3_Witness ==
    /\ pc = "index"
    /\ \E l \in DOMAIN pklBefore :
          l \in Range(loc.successes) /\ pklFile.data[l] # pklBefore[l]
    /\ \E l \in DOMAIN pklBefore : l \notin Range(loc.successes)

\* C4: when a run is over, index.ssv has exactly one row for every level
\* acquired in any run so far.
C4_LedgerHoldsAllAcquired ==
    pc = "exit" =>
        /\ LedgerLevels = acquired
        /\ Len(ssvFile.rows) = Cardinality(acquired)

C6_SavedOnlyIfChanged ==
    /\ pklWrites <= 1
    /\ pklWrites = 1 => (pc \in {"index", "exit"} /\ loc.successes # <<>>)

\* C6 as amended: the pickle is saved at most once per run, after the loop,
\* and exactly when the dict is then not empty, that is when the file held an
\* entry before the run or the run had a success; a run without a success
\* leaves the dict in the file as it was.
C6_SavedOnlyIfNonEmpty ==
    /\ pklWrites <= 1
    /\ pklWrites = 1 => pc \in {"index", "exit"}
    /\ pc = "index" =>
          /\ pklWrites = 1 <=> (DOMAIN pklBefore # {} \/ loc.successes # <<>>)
          /\ loc.successes = <<>> => pklFile.data = pklBefore

\* A run without a success has just saved the pickle it loaded.
C6_Witness ==
    /\ pc = "index"
    /\ loc.successes = <<>>
    /\ loc.failures # <<>>
    /\ pklWrites = 1

\* C7: at the prompt, invalid lists exactly the typed integers that are not
\* available, and while it lists any the download is not entered; a download
\* entered by choice "2" has the typed integers as its levels, ascending and
\* without repetition, all of them available.
C7_ExplicitSelectionValidated ==
    /\ Range(invalid) = Range(nums) \ Range(available)
    /\ Len(invalid) = Cardinality({k \in 1..Len(nums) : nums[k] \notin Range(available)})
    /\ (choice = "2" /\ invalid # <<>>) => (pc = "specific" /\ levels = <<>> /\ attempted = <<>>)
    /\ (choice = "2" /\ pc = "download") =>
          /\ invalid = <<>>
          /\ levels = SortedSeq(Range(nums))
    /\ (choice = "2" /\ pc # "specific") =>
          /\ Range(levels) \subseteq Range(available)
          /\ \A a, b \in 1..Len(levels) : a < b => levels[a] < levels[b]

\* A line naming an available level and an unavailable one was refused.
C7_Witness ==
    /\ pc = "specific"
    /\ invalid # <<>>
    /\ Range(nums) \cap Range(available) # {}

\* A line naming two available levels in descending order was accepted.
C7_WitnessAccepted ==
    /\ choice = "2"
    /\ pc = "download"
    /\ Len(nums) = 2 /\ nums[1] > nums[2]
    /\ levels = <<nums[2], nums[1]>>

HasNegative(json_data) ==
    \E k \in 1..Len(json_data) : json_data[k].row < 0 \/ json_data[k].col < 0

\* C8: a level whose extracted cells have a negative row or column is a
\* failure: it is not among the successes, has no staged index row, keeps the
\* pickle entry (or none) it had, and is in no row of the index written.
C8_NegativeCellIsFailure ==
    (loc.json_level # 0 /\ HasNegative(loc.json_data)) =>
        /\ loc.json_level \notin Range(loc.successes)
        /\ \A k \in 1..Len(loc.index_rows) : loc.index_rows[k].level # loc.json_level
        /\ IF loc.json_level \in DOMAIN pklBefore
           THEN loc.pickle_data[loc.json_level] = pklBefore[loc.json_level]
           ELSE loc.json_level \notin DOMAIN loc.pickle_data

\* The 0-based positions of the matrix convert_puzzle returned.
MatrixPositions ==
    {<<r, c>> : r \in 0..(Len(cv_out.matrix) - 1),
                c \in 0..((IF cv_out.matrix = <<>> THEN 0 ELSE Len(cv_out.matrix[1])) - 1)}

\* The records of json_data at position p, and the last of them.
RecordsAt(p) == {k \in 1..Len(cv_json) : cv_json[k].row = p[1] /\ cv_json[k].col = p[2]}
LastAt(p) == PyMax(RecordsAt(p))
IndexAt(p) == cv_out.matrix[p[1] + 1][p[2] + 1][1]

\* C9: in the matrix returned, two positions that input cells cover carry the
\* same colour number exactly when the last records at them have the same
\* colour; a position no record covers carries 0; no colour is numbered 0.
C9_ColourGroupingPreserved ==
    cv_pc = "returned" =>
        /\ \A p, q \in {x \in MatrixPositions : RecordsAt(x) # {}} :
              (IndexAt(p) = IndexAt(q)) <=> (cv_json[LastAt(p)].color = cv_json[LastAt(q)].color)
        /\ \A p \in MatrixPositions : RecordsAt(p) = {} => IndexAt(p) = 0
        /\ \A c \in DOMAIN cv_out.color_map : cv_out.color_map[c] # 0

\* C10: for a non-empty json_data the matrix returned has max(row)+1 rows of
\* max(col)+1 cells each, the maxima taken over the input cells.
C10_MatrixDimensions ==
    (cv_pc = "returned" /\ cv_json # <<>>) =>
        /\ Len(cv_out.matrix) = PyMax({cv_json[k].row : k \in 1..Len(cv_json)}) + 1
        /\ \A r \in 1..Len(cv_out.matrix) :
              Len(cv_out.matrix[r]) = PyMax({cv_json[k].col : k \in 1..Len(cv_json)}) + 1

\* C11: from both files absent, in every state of every run (so also between
\* the save of the pickle and the write of the index) every level of a row of
\* index.ssv is a key of the dict in puzzles.pkl, and index.ssv exists only if
\* puzzles.pkl does; the index is only rewritten by a run that saved the pickle.
C11_LedgerWithinStore ==
    /\ LedgerLevels \subseteq DOMAIN pklFile.data
    /\ ssvFile.exists => pklFile.exists
    /\ (pc = "index" /\ loc.index_rows # <<>>) =>
          /\ pklWrites = 1
          /\ \A k \in 1..Len(loc.index_rows) :
                loc.index_rows[k].level \in DOMAIN pklFile.data

\* A later run has saved the pickle with a newly acquired level and has not
\* yet rewritten the index, which still holds the rows of an earlier run.
C11_Witness ==
    /\ pc = "index"
    /\ ssvFile.exists
    /\ LedgerLevels # {}
    /\ loc.failures # <<>>
    /\ \E l \in Range(loc.successes) : l \notin LedgerLevels

====
